---- MODULE Spec2Model ----
(***************************************************************************)
(* Model of pyshell.Shell (src/pyshell.py): nested line-oriented shells.   *)
(*                                                                         *)
(* One Python call stack is modelled: `stack` holds one frame per Session  *)
(* whose cmdloop() has been entered and has not yet returned, outermost    *)
(* first.  The readline library is process-wide state: the installed       *)
(* completer, the completer delimiters and the in-memory history buffer.   *)
(* History files live in `files`.  Strings are TLA+ strings; a line is the *)
(* text typed at the prompt.                                               *)
(***************************************************************************)
EXTENDS Integers, Sequences, FiniteSets, TLC

(***************************************************************************)
(* Bounds of the model.                                                    *)
(***************************************************************************)
MaxDepth == 3
MaxReads == 4

(***************************************************************************)
(* String helpers: Python's str.strip, str.startswith, '-'.join, and the   *)
(* newline-separated text of a history file.                               *)
(***************************************************************************)
Whitespace == {" ", "\t", "\n", "\r"}

CharAt(s, i) == SubSeq(s, i, i)

RECURSIVE LStrip(_)
LStrip(s) ==
    IF Len(s) > 0 /\ CharAt(s, 1) \in Whitespace
    THEN LStrip(SubSeq(s, 2, Len(s)))
    ELSE s

RECURSIVE RStrip(_)
RStrip(s) ==
    IF Len(s) > 0 /\ CharAt(s, Len(s)) \in Whitespace
    THEN RStrip(SubSeq(s, 1, Len(s) - 1))
    ELSE s

Strip(s) == RStrip(LStrip(s))

StartsWith(s, p) == Len(p) <= Len(s) /\ SubSeq(s, 1, Len(p)) = p

RECURSIVE Join(_, _)
Join(sep, parts) ==
    IF Len(parts) = 0 THEN ""
    ELSE IF Len(parts) = 1 THEN parts[1]
    ELSE parts[1] \o sep \o Join(sep, Tail(parts))

RECURSIVE FileText(_)
FileText(lines) ==
    IF Len(lines) = 0 THEN ""
    ELSE lines[1] \o "\n" \o FileText(Tail(lines))

(***************************************************************************)
(* shlex.split(line) in POSIX mode with whitespace_split: the tokens of    *)
(* the line, or a ValueError for an unterminated quote or a dangling       *)
(* escape.  st is the lexer state: " " between tokens, "a" inside a word,  *)
(* "'" or "\"" inside a quoted part.                                       *)
(***************************************************************************)
RECURSIVE Lex(_, _, _, _, _)
Lex(s, i, st, tok, toks) ==
    IF i > Len(s) THEN
        IF st \in {"'", "\""} THEN [ok |-> FALSE, toks |-> <<>>]
        ELSE IF st = "a" THEN [ok |-> TRUE, toks |-> Append(toks, tok)]
        ELSE [ok |-> TRUE, toks |-> toks]
    ELSE LET c == CharAt(s, i) IN
        IF st = " " THEN
            IF c \in Whitespace THEN Lex(s, i + 1, " ", "", toks)
            ELSE IF c \in {"'", "\""} THEN Lex(s, i + 1, c, "", toks)
            ELSE IF c = "\\" THEN
                IF i = Len(s) THEN [ok |-> FALSE, toks |-> <<>>]
                ELSE Lex(s, i + 2, "a", CharAt(s, i + 1), toks)
            ELSE Lex(s, i + 1, "a", c, toks)
        ELSE IF st = "a" THEN
            IF c \in Whitespace THEN Lex(s, i + 1, " ", "", Append(toks, tok))
            ELSE IF c \in {"'", "\""} THEN Lex(s, i + 1, c, tok, toks)
            ELSE IF c = "\\" THEN
                IF i = Len(s) THEN [ok |-> FALSE, toks |-> <<>>]
                ELSE Lex(s, i + 2, "a", tok \o CharAt(s, i + 1), toks)
            ELSE Lex(s, i + 1, "a", tok \o c, toks)
        ELSE IF c = st THEN Lex(s, i + 1, "a", tok, toks)
        ELSE IF st = "\"" /\ c = "\\" /\ i < Len(s)
                /\ CharAt(s, i + 1) \in {"\"", "\\"}
            THEN Lex(s, i + 2, st, tok \o CharAt(s, i + 1), toks)
        ELSE Lex(s, i + 1, st, tok \o c, toks)

ShlexSplit(s) == Lex(s, 1, " ", "", <<>>)

(***************************************************************************)
(* The shell types the interpreter is run on: the example types of         *)
(* src/play.py.  A handler is [attr, name, commands, kind, cls, display]:  *)
(* the attribute it is bound to, its __name__, the command names of its    *)
(* __command__ list, what it does, and for a handler made by @subshell the *)
(* shell type it launches and the prompt_display its body returns ("" is   *)
(* None).  KarShell additionally declares `sub`, whose handler returns     *)
(* self.launch_subshell(KarShell, args), so that nesting has no fixed      *)
(* depth; MaxDepth bounds it.                                              *)
(***************************************************************************)
ShellTypes == {"MyShell", "FooShell", "BarShell", "KarShell"}

RootType == "MyShell"

H(attr, commands, kind, cls, display) ==
    [attr |-> attr, name |-> attr, commands |-> commands, kind |-> kind,
     cls |-> cls, display |-> display]

BuiltinHandlers ==
    << H("_do_end", <<"end">>, "end", "", ""),
       H("_do_exec", <<"exec">>, "exec", "", ""),
       H("_do_exit", <<"exit">>, "exit", "", ""),
       H("_do_help", <<"help">>, "help", "", ""),
       H("_do_history", <<"history">>, "history", "", "") >>

Declared(cls) ==
    IF cls = "MyShell" THEN
        << H("do_bar", <<"bar">>, "subshell", "BarShell", "BarPrompt"),
           H("do_foo", <<"foo", "fsh">>, "subshell", "FooShell", "foo-prompt"),
           H("do_hello", <<"hello", "hi", "Ha--lo">>, "plain", "", ""),
           H("do_kar", <<"kar0">>, "subshell", "KarShell", "kar0"),
           H("print_and_launch_fsh", <<>>, "subshell", "FooShell", "") >>
    ELSE IF cls = "FooShell" THEN
        << H("do_kar", <<"kar">>, "subshell", "KarShell", "karPROMPT") >>
    ELSE IF cls = "KarShell" THEN
        << H("do_sub", <<"sub">>, "subshell", "KarShell", "") >>
    ELSE << >>

(* a scan of the attributes the shell type declares itself, without the    *)
(* ones it inherits from Shell                                             *)
HandlersOwn(cls) == Declared(cls)

(* dir(self): the attribute names in sorted order; "_" sorts before the    *)
(* lower-case letters, so the built-in handlers of Shell come first.       *)
Handlers(cls) == BuiltinHandlers \o Declared(cls)

(***************************************************************************)
(* Shell.__build_cmd_map: a Python dict kept as the sequence of its        *)
(* <<command, method name>> items in insertion order.                      *)
(***************************************************************************)
HasKey(m, k) == \E i \in 1..Len(m) : m[i][1] = k

(* a lookup that takes the first item of the dict whatever the key *)
LookupFirst(m, k) == m[1][2]

Lookup(m, k) == m[CHOOSE i \in 1..Len(m) : m[i][1] = k][2]

Put(m, k, v) ==
    IF HasKey(m, k)
    THEN [i \in 1..Len(m) |-> IF m[i][1] = k THEN <<k, v>> ELSE m[i]]
    ELSE Append(m, <<k, v>>)

RECURSIVE PutAll(_, _, _)
PutAll(m, cmds, name) ==
    IF Len(cmds) = 0 THEN m
    ELSE PutAll(Put(m, Head(cmds), name), Tail(cmds), name)

RECURSIVE BuildFrom(_, _)
BuildFrom(m, hs) ==
    IF Len(hs) = 0 THEN m
    ELSE BuildFrom(PutAll(m, Head(hs).commands, Head(hs).name), Tail(hs))

BuildCmdMap(cls) == BuildFrom(<<>>, Handlers(cls))

(* getattr(self, func_name) *)
GetAttr(cls, func_name) ==
    LET hs == Handlers(cls)
    IN  hs[CHOOSE i \in 1..Len(hs) : hs[i].attr = func_name]

(***************************************************************************)
(* Program constants.                                                      *)
(***************************************************************************)
EOF == "^D"                \* stands for chr(ord('D') - 64)

NonDelims == {"-", "?"}

DefaultRootPrompt == "root"

Backquote == "^Q"          \* stands for chr(96)

(* readline's completer delimiters before any shell has run *)
DefaultDelims ==
    {" ", "\t", "\n", "~", "!", "@", "#", "$", "%", "^", "&", "*", "(",
     ")", "-", "=", "+", "[", "{", "]", "}", "\\", "|", ";", ":", "'", "\"",
     ",", "<", ">", "/", "?", Backquote}

(* tempfile.mkdtemp() of the root Session *)
TempDir == "/tmp/d"

ShellDoc == "Recursive interactive shell."

(***************************************************************************)
(* Inputs of the model: the labels a root Session is constructed with, the *)
(* shell types that carry a docstring of their own, the lines typed at a   *)
(* prompt, and the line buffers on which completion is requested.          *)
(***************************************************************************)
RootPrompts == {DefaultRootPrompt, "root-foo-prompt"}

DocChoices == {{}, {"MyShell", "FooShell"}}

Lines == {"exit", "end", "zz", "\"zz", "foo", "kar", "sub", "history"}

CompleteBuffers == {"?", "e"}

MaxAttempt == 0

(* the lines of the dispatch runs: every command name of the four shell    *)
(* types, some of them with arguments, at most MaxDispatch lines a run     *)
DispatchLines ==
    {"end", "exec", "exit", "help", "history", "bar", "foo", "fsh", "hello",
     "hi", "Ha--lo", "kar0", "kar", "sub",
     "hi there 'a b'", "exec ls", "fsh x"}

MaxDispatch == 2

(* the words of the completion runs, and the largest attempt number *)
CompleteWords == {"", "e", "ex", "h", "Ha-", "k", "zz"}

MaxState == 3

(* the lines of the runs on a finite input stream, at most MaxTyped lines  *)
(* before the stream ends                                                  *)
EofLines == {"foo", "kar", "sub", "zz", "end"}

MaxTyped == 3

(***************************************************************************)
(* State.                                                                  *)
(*   stack      frames of the Sessions whose cmdloop() is on the call      *)
(*              stack, root first; the root's frame exists from its        *)
(*              construction on.  A frame holds the Shell object (self)    *)
(*              and the locals of its cmdloop                              *)
(*   completer  readline's completer: NoCompleter, or the Shell object     *)
(*              whose bound __driver_completer is installed                *)
(*   delims     readline's completer delimiters, as a set of characters    *)
(*   history    readline's in-memory history buffer                        *)
(*   files      the history files: path -> lines                           *)
(*   fs         the fault of the file system: "ok", "noread" (reading a    *)
(*              file fails) or "nowrite" (writing a file fails)            *)
(*   hasDoc     the shell types whose class body has a docstring           *)
(*   typed      the line the last iteration of a loop has read             *)
(*   out, err   what the last step wrote to self.stdout and self.stderr    *)
(*   comp       what the last call of the completer returned               *)
(*   nread      number of lines typed so far                               *)
(*   called     the handler the last step invoked through __exec_cmd, and  *)
(*              the arguments it was given                                 *)
(*   visit      history variable, one record per frame of stack: the lines *)
(*              typed at that Session since its cmdloop started, and the   *)
(*              history buffer at the launch of its running child          *)
(*   sessions   history variable: for every Session whose cmdloop has      *)
(*              started, the pair of its history file and the              *)
(*              prompt_display labels of its mode stack                    *)
(***************************************************************************)
VARIABLES stack, completer, delims, history, files, fs, hasDoc, typed, out,
          err, comp, nread, called, visit, sessions

vars == <<stack, completer, delims, history, files, fs, hasDoc, typed, out,
          err, comp, nread, called, visit, sessions>>

NoComp == [kind |-> "none", val |-> ""]

NoCall == [attr |-> "", args |-> <<>>]

NoVisit == [entered |-> {}, at_launch |-> <<>>]

NoCompleter == [cls |-> "", mode_stack |-> <<>>, prompt |-> "", cmd_map |-> <<>>]

(***************************************************************************)
(* Shell.__init__, the prompt and history_fname properties.                *)
(***************************************************************************)
Mode(args, prompt_display) == [args |-> args, prompt_display |-> prompt_display]

Prompt(root_prompt, mode_stack) ==
    "(" \o Join("-", <<root_prompt>> \o
                     [i \in 1..Len(mode_stack) |-> mode_stack[i].prompt_display])
        \o ")$ "

NewShell(cls, mode_stack, root_prompt) ==
    [cls |-> cls,
     mode_stack |-> mode_stack,
     prompt |-> Prompt(root_prompt, mode_stack),
     cmd_map |-> BuildCmdMap(cls)]

HistoryFname(self) ==
    TempDir \o "/history/" \o "s-" \o SubSeq(self.prompt, 2, Len(self.prompt) - 2)

(* the frame of a Session whose cmdloop has not been called yet *)
IdleFrame(self) ==
    [self |-> self,
     old_completer |-> NoCompleter,
     old_delims |-> {},
     exit_directive |-> "False",
     pc |-> "idle"]

(***************************************************************************)
(* The readline library and os.path.isfile.                                *)
(***************************************************************************)
(* input(): a non-empty line is added to the history buffer unless it      *)
(* repeats the last entry                                                  *)
AddHistory(h, line) ==
    IF line = "" \/ (Len(h) > 0 /\ h[Len(h)] = line) THEN h ELSE Append(h, line)

WriteFile(fl, path, h) == [q \in DOMAIN fl \cup {path} |-> IF q = path THEN h ELSE fl[q]]

ClearHistory(h) == <<>>

ReadHistoryFile(h, fl, path) == h \o fl[path]

CanWrite == fs # "nowrite"

CanRead == fs # "noread"

TypeOK ==
    /\ Len(stack) \in 1..(MaxDepth + 1)
    /\ delims \subseteq DefaultDelims
    /\ fs \in {"ok", "noread", "nowrite"}
    /\ hasDoc \in DocChoices
    /\ nread \in 0..MaxReads
    /\ typed \in Lines \cup DispatchLines \cup {EOF, ""}
    /\ Len(visit) = Len(stack)
    /\ \A k \in 1..Len(stack) :
          /\ stack[k].pc \in {"idle", "read", "launch", "break", "raise", "done", "failed"}
          /\ stack[k].exit_directive \in {"False", "None", "True", "end"}
          /\ stack[k].self.cls \in ShellTypes

Init ==
    /\ \E rp \in RootPrompts : stack = <<IdleFrame(NewShell(RootType, <<>>, rp))>>
    /\ completer = NoCompleter
    /\ delims = DefaultDelims
    /\ history = <<>>
    /\ files = [q \in {} |-> <<>>]
    /\ fs = "ok"
    /\ hasDoc \in DocChoices
    /\ typed = ""
    /\ out = <<>>
    /\ err = <<>>
    /\ comp = NoComp
    /\ nread = 0
    /\ called = NoCall
    /\ visit = <<NoVisit>>
    /\ sessions = {}

Top == stack[Len(stack)]

(***************************************************************************)
(* The operations are written as functions from a world                    *)
(* [stack, completer, delims, history, files, out, err, called] to a      *)
(* world, so that a handler that calls launch_subshell, which calls cmdloop, is one  *)
(* step.  A frame's pc tells where its cmdloop stands: "read" at input(),  *)
(* "launch" inside launch_subshell waiting for the child, "break" after    *)
(* the loop was left, "raise" with an exception in flight in the loop;     *)
(* the root's frame ends as "done" (cmdloop returned) or "failed" (an      *)
(* exception left cmdloop).                                                *)
(***************************************************************************)
Cur ==
    [stack |-> stack, completer |-> completer, delims |-> delims,
     history |-> history, files |-> files, out |-> <<>>, err |-> <<>>,
     called |-> NoCall]

TopOf(w) == w.stack[Len(w.stack)]

SetTop(w, fr) == [w EXCEPT !.stack[Len(w.stack)] = fr]

(* a loop test that leaves the loop on `end` in the root as well *)
LoopPcBreakAtRoot(exit_directive, mode_stack) ==
    IF exit_directive = "end" \/ exit_directive = "True" THEN "break" ELSE "read"

(* the test at the head of the while loop, on the directive just assigned *)
LoopPc(exit_directive, mode_stack) ==
    IF exit_directive = "end" THEN
        IF Len(mode_stack) > 0 THEN "break" ELSE "read"
    ELSE IF exit_directive = "True" THEN "break"
    ELSE "read"

(* exit_directive = self.__exec_cmd(line) returned val *)
Returned(w, val) ==
    SetTop(w, [TopOf(w) EXCEPT !.exit_directive = val,
                               !.pc = LoopPc(val, TopOf(w).self.mode_stack)])

(* an exception leaves the loop body of the top frame *)
Raised(w) == SetTop(w, [TopOf(w) EXCEPT !.pc = "raise"])

(* cmdloop of the Shell object self, down to the first input(); its frame  *)
(* is pushed on w.stack.  The history file is read before the try          *)
(* statement, so a failure of the read leaves cmdloop with nothing         *)
(* changed.                                                                *)
CmdloopEnter(w, self) ==
    LET fname == HistoryFname(self)
        isfile == fname \in DOMAIN w.files
        loaded == IF isfile THEN ReadHistoryFile(w.history, w.files, fname)
                  ELSE w.history
        fr == [self |-> self,
               old_completer |-> w.completer,
               old_delims |-> w.delims,
               exit_directive |-> "False",
               pc |-> "read"]
    IN  IF isfile /\ ~CanRead
        THEN [ok |-> FALSE, w |-> w]
        ELSE [ok |-> TRUE,
              w |-> [w EXCEPT !.stack = Append(w.stack, fr),
                              !.completer = self,
                              !.delims = w.delims \ NonDelims,
                              !.history = ClearHistory(loaded)]]

(* a launch_subshell that returns the child's exit_directive as it is *)
LaunchResultPass(exit_directive) == exit_directive

(* the value launch_subshell returns for the child's exit_directive *)
LaunchResult(exit_directive) == IF exit_directive = "end" THEN "end" ELSE "False"

(* a launch that appends the new Mode to the launching Session's own list  *)
(* and hands that list to the child                                        *)
LaunchSubshellInPlace(w, shell_cls, args, prompt_display) ==
    LET pd == IF prompt_display # "" THEN prompt_display ELSE shell_cls
        self == [TopOf(w).self EXCEPT !.mode_stack = @ \o <<Mode(args, pd)>>]
        w1 == [w EXCEPT !.files = WriteFile(w.files, HistoryFname(self), w.history)]
        shell == NewShell(shell_cls, self.mode_stack, DefaultRootPrompt)
        e == CmdloopEnter(SetTop(w1, [TopOf(w1) EXCEPT !.pc = "launch",
                                                       !.self = self]), shell)
    IN  IF ~CanWrite THEN Raised(w)
        ELSE IF ~e.ok THEN Raised(w1)
        ELSE e.w

(* Shell.launch_subshell up to the child's first input() *)
LaunchSubshell(w, shell_cls, args, prompt_display) ==
    LET self == TopOf(w).self
        w1 == [w EXCEPT !.files = WriteFile(w.files, HistoryFname(self), w.history)]
        pd == IF prompt_display # "" THEN prompt_display ELSE shell_cls
        shell == NewShell(shell_cls, self.mode_stack \o <<Mode(args, pd)>>,
                          DefaultRootPrompt)
        e == CmdloopEnter(SetTop(w1, [TopOf(w1) EXCEPT !.pc = "launch"]), shell)
    IN  IF ~CanWrite THEN Raised(w)
        ELSE IF ~e.ok THEN Raised(w1)
        ELSE e.w

(* a parser that hands the end-of-file character on as a command name *)
ParseLineKeepsEOF(line) ==
    LET r == ShlexSplit(Strip(line)) IN
        IF ~r.ok THEN [ok |-> FALSE, cmd |-> "", args |-> <<>>]
        ELSE IF Len(r.toks) = 0 THEN [ok |-> TRUE, cmd |-> "", args |-> <<>>]
        ELSE [ok |-> TRUE,
              cmd |-> IF r.toks[1] = "?" THEN "help"
                      ELSE IF r.toks[1] = "!" THEN "exec"
                      ELSE r.toks[1],
              args |-> Tail(r.toks)]

(* Shell._parse_line *)
ParseLine(line) ==
    IF line = EOF THEN [ok |-> TRUE, cmd |-> "exit", args |-> <<>>]
    ELSE LET r == ShlexSplit(Strip(line)) IN
        IF ~r.ok THEN [ok |-> FALSE, cmd |-> "", args |-> <<>>]
        ELSE IF Len(r.toks) = 0 THEN [ok |-> TRUE, cmd |-> "", args |-> <<>>]
        ELSE [ok |-> TRUE,
              cmd |-> IF r.toks[1] = "?" THEN "help"
                      ELSE IF r.toks[1] = "!" THEN "exec"
                      ELSE r.toks[1],
              args |-> Tail(r.toks)]

(* Shell._do_history *)
DoHistory(w) ==
    LET fname == HistoryFname(TopOf(w).self)
        w1 == [w EXCEPT !.files = WriteFile(w.files, fname, w.history)]
    IN  IF ~CanWrite THEN Raised(w)
        ELSE IF ~CanRead THEN Raised(w1)
        ELSE Returned([w1 EXCEPT !.out = <<FileText(w1.files[fname])>>], "None")

(* func(args) for the handler h: the built-in commands, a handler made by  *)
(* @subshell, or a handler that returns nothing                            *)
CallHandler(w, h, args) ==
    IF h.kind = "end" THEN Returned(w, "end")
    ELSE IF h.kind = "exit" THEN Returned(w, "True")
    ELSE IF h.kind = "exec" THEN
        IF Len(args) = 0
        THEN Returned([w EXCEPT !.err = <<"exec: empty command\n">>], "None")
        ELSE Returned(w, "None")
    ELSE IF h.kind = "history" THEN DoHistory(w)
    ELSE IF h.kind = "subshell" THEN LaunchSubshell(w, h.cls, args, h.display)
    ELSE Returned(w, "None")

(* an unknown command that also ends the Session *)
CommandNotFoundExits(w, cmd) ==
    Returned([w EXCEPT !.err = <<cmd \o ": command not found\n">>], "True")

(* the branch of __exec_cmd for a command that is not in the registry *)
CommandNotFound(w, cmd) ==
    Returned([w EXCEPT !.err = <<cmd \o ": command not found\n">>], "None")

(* Shell.__exec_cmd *)
ExecCmd(w, line) ==
    IF line = "" THEN Returned(w, "None")
    ELSE LET p == ParseLine(line)
             self == TopOf(w).self
         IN  IF ~p.ok THEN Raised(w)
             ELSE IF ~HasKey(self.cmd_map, p.cmd) THEN CommandNotFound(w, p.cmd)
             ELSE LET func == GetAttr(self.cls, Lookup(self.cmd_map, p.cmd))
                  IN  CallHandler([w EXCEPT !.called = [attr |-> func.attr,
                                                        args |-> p.args]],
                                  func, p.args)

(* a finally clause that leaves the installed completer in place *)
KeepCompleter(w, fr) == w.completer

(* readline.set_completer(old_completer) in the finally clause *)
RestoreCompleter(w, fr) == fr.old_completer

(* the finally clause of cmdloop for the top frame, the return to the      *)
(* caller, and for a child the rest of the parent's launch_subshell and    *)
(* the parent's test of the directive                                      *)
Finally(w) ==
    LET fr == TopOf(w)
        n == Len(w.stack)
        w1 == [w EXCEPT !.completer = RestoreCompleter(w, fr)]
        w2 == IF CanWrite
              THEN [w1 EXCEPT !.files = WriteFile(w.files, HistoryFname(fr.self),
                                                  w.history),
                              !.delims = fr.old_delims]
              ELSE w1
        normal == CanWrite /\ fr.pc = "break"
    IN  IF n = 1
        THEN SetTop(w2, [fr EXCEPT !.pc = IF normal THEN "done" ELSE "failed"])
        ELSE LET w3 == [w2 EXCEPT !.stack = SubSeq(w2.stack, 1, n - 1)]
                 pf == HistoryFname(TopOf(w3).self)
                 w4 == [w3 EXCEPT !.history = ClearHistory(w3.history)]
             IN  IF ~normal THEN Raised(w3)
                 ELSE IF ~(pf \in DOMAIN w4.files /\ CanRead) THEN Raised(w4)
                 ELSE Returned(
                        [w4 EXCEPT !.history = ReadHistoryFile(w4.history, w4.files, pf)],
                        LaunchResult(fr.exit_directive))

(***************************************************************************)
(* The completer: Shell.doc_string, Shell.__driver_helper,                 *)
(* Shell.__complete_cmds and Shell.__driver_completer.                     *)
(***************************************************************************)
ClassDoc(cls) ==
    IF cls = "Shell" THEN ShellDoc
    ELSE IF cls \in hasDoc THEN cls \o " doc"
    ELSE ""

Base(cls) == "Shell"

RECURSIVE DocString(_)
DocString(cls) == IF ClassDoc(cls) # "" THEN ClassDoc(cls) ELSE DocString(Base(cls))

DriverHelper(origline) ==
    "\nNo help message is found for:\n    " \o origline \o "\n"

CompleteCmds(self, text) ==
    SelectSeq([i \in 1..Len(self.cmd_map) |-> self.cmd_map[i][1]],
              LAMBDA name : StartsWith(name, text))

(* readline.get_begidx() with the cursor at the end of the buffer: the     *)
(* 0-based offset at which the word under completion starts                *)
RECURSIVE Begidx(_, _)
Begidx(buf, d) ==
    IF Len(buf) = 0 \/ CharAt(buf, Len(buf)) \in d THEN Len(buf)
    ELSE Begidx(SubSeq(buf, 1, Len(buf) - 1), d)

DriverCompleter(self, origline, state) ==
    LET line == LStrip(origline)
        offset == Len(origline) - Len(line)
        begidx == Begidx(origline, delims) - offset
        text == SubSeq(origline, Begidx(origline, delims) + 1, Len(origline))
        matches == CompleteCmds(self, text)
    IN  IF line # "" /\ CharAt(line, Len(line)) = "?" THEN
            [out |-> IF state # 0 THEN <<>>
                     ELSE IF Strip(line) = "?"
                     THEN <<"\n", DocString(self.cls), "\n", self.prompt, origline>>
                     ELSE <<DriverHelper(SubSeq(origline, 1, Len(origline) - 1)),
                            "\n", self.prompt, origline>>,
             comp |-> [kind |-> "None", val |-> ""]]
        ELSE IF begidx = 0 THEN
            [out |-> <<>>,
             comp |-> IF state + 1 <= Len(matches)
                      THEN [kind |-> "str", val |-> matches[state + 1]]
                      ELSE [kind |-> "IndexError", val |-> ""]]
        ELSE [out |-> <<>>, comp |-> [kind |-> "None", val |-> ""]]

(***************************************************************************)
(* Actions.                                                                *)
(***************************************************************************)
Apply(w) ==
    /\ stack' = w.stack
    /\ completer' = w.completer
    /\ delims' = w.delims
    /\ history' = w.history
    /\ files' = w.files
    /\ out' = w.out
    /\ err' = w.err
    /\ comp' = NoComp
    /\ called' = w.called

(* the history variable after a step on which `line` was typed ("" for a   *)
(* step that types no line): the line is entered at the innermost Session, *)
(* a launch records the buffer launch_subshell starts with, a return drops *)
(* the child's record                                                      *)
Visit(line) ==
    LET n == Len(stack)
        v == IF line = "" THEN visit
             ELSE [visit EXCEPT ![n].entered = @ \cup {line}]
    IN  IF Len(stack') = n + 1
        THEN Append([v EXCEPT ![n].at_launch = AddHistory(history, line)], NoVisit)
        ELSE IF Len(stack') = n - 1
        THEN [SubSeq(v, 1, n - 1) EXCEPT ![n - 1].at_launch = <<>>]
        ELSE v

(* the prompt_display labels of the mode stack of the Shell object self *)
Labels(self) == [i \in 1..Len(self.mode_stack) |-> self.mode_stack[i].prompt_display]

(* the history variable after a step: a cmdloop that has started, the      *)
(* root's or a launched child's, is recorded with its history file         *)
Sessions ==
    LET shell == stack'[Len(stack')].self
    IN  IF \/ Len(stack') = Len(stack) + 1
           \/ Top.pc = "idle" /\ stack'[Len(stack')].pc = "read"
        THEN sessions \cup {<<HistoryFname(shell), Labels(shell)>>}
        ELSE sessions

(* the driver calls cmdloop() of the root Session *)
Start ==
    /\ Len(stack) = 1
    /\ Top.pc = "idle"
    /\ LET e == CmdloopEnter([Cur EXCEPT !.stack = <<>>], Top.self)
       IN  IF e.ok THEN Apply(e.w)
           ELSE Apply(SetTop(Cur, [Top EXCEPT !.pc = "failed"]))
    /\ sessions' = Sessions
    /\ UNCHANGED <<fs, hasDoc, typed, nread, visit>>

(* one iteration of the loop of the innermost Session on a typed line *)
ReadLine(line) ==
    /\ Top.pc = "read"
    /\ nread < MaxReads
    /\ LET w == ExecCmd([Cur EXCEPT !.history = AddHistory(history, line)],
                        Strip(line))
       IN  /\ Len(w.stack) <= MaxDepth + 1
           /\ Apply(w)
    /\ typed' = Strip(line)
    /\ nread' = nread + 1
    /\ visit' = Visit(line)
    /\ sessions' = Sessions
    /\ UNCHANGED <<fs, hasDoc>>

(* one iteration of the loop when input() raises EOFError *)
ReadEOF ==
    /\ Top.pc = "read"
    /\ Apply(ExecCmd(Cur, EOF))
    /\ typed' = EOF
    /\ UNCHANGED <<fs, hasDoc, nread, visit, sessions>>

(* the innermost Session leaves its loop, by break or by an exception *)
Leave ==
    /\ Top.pc \in {"break", "raise"}
    /\ Apply(Finally(Cur))
    /\ visit' = Visit("")
    /\ UNCHANGED <<fs, hasDoc, typed, nread, sessions>>

(* readline calls the installed completer while a line is being typed *)
Complete(origline, state) ==
    /\ Top.pc = "read"
    /\ completer # NoCompleter
    /\ LET r == DriverCompleter(completer, origline, state)
       IN  /\ out' = r.out
           /\ comp' = r.comp
    /\ err' = <<>>
    /\ called' = NoCall
    /\ UNCHANGED <<stack, completer, delims, history, files, fs, hasDoc, typed,
                   nread, visit, sessions>>

(* the file system starts or stops failing *)
SetFs(m) ==
    /\ m # fs
    /\ fs' = m
    /\ out' = <<>>
    /\ err' = <<>>
    /\ comp' = NoComp
    /\ called' = NoCall
    /\ UNCHANGED <<stack, completer, delims, history, files, hasDoc, typed, nread,
                   visit, sessions>>

Next ==
    \/ Start
    \/ \E line \in Lines : ReadLine(line)
    \/ ReadEOF
    \/ Leave
    \/ \E origline \in CompleteBuffers, state \in 0..MaxAttempt :
          Complete(origline, state)

Spec == Init /\ [][Next]_vars

(* the same program on a file system that may fail *)
NextIO ==
    \/ Next
    \/ \E m \in {"ok", "noread", "nowrite"} : SetFs(m)

SpecIO == Init /\ [][NextIO]_vars

(* runs that dispatch the lines of DispatchLines *)
Dispatch(line) ==
    /\ nread < MaxDispatch
    /\ ReadLine(line)

NextDispatch ==
    \/ Start
    \/ \E line \in DispatchLines : Dispatch(line)
    \/ ReadEOF
    \/ Leave

SpecDispatch == Init /\ [][NextDispatch]_vars

(* runs that open subshells and request completions of a command word *)
NextComplete ==
    \/ Start
    \/ \E line \in {"foo", "kar", "bar"} : Dispatch(line)
    \/ ReadEOF
    \/ Leave
    \/ \E text \in CompleteWords, state \in 0..MaxState : Complete(text, state)

SpecComplete == Init /\ [][NextComplete]_vars

(* runs on a finite input stream: once input() has raised EOFError every   *)
(* later input() raises it too.  The loop of cmdloop calls input() again   *)
(* as long as it runs, and a loop that was left runs its finally clause.   *)
TypeLine(line) ==
    /\ typed # EOF
    /\ nread < MaxTyped
    /\ ReadLine(line)

NextEOF ==
    \/ Start
    \/ \E line \in EofLines : TypeLine(line)
    \/ ReadEOF
    \/ Leave

SpecEOF == Init /\ [][NextEOF]_vars /\ WF_vars(ReadEOF) /\ WF_vars(Leave)

(***************************************************************************)
(* Properties.                                                             *)
(***************************************************************************)
IsRoot(fr) == Len(fr.self.mode_stack) = 0

Below(k) == SubSeq(stack, 1, k)

InSet(x, seq) == \E i \in 1..Len(seq) : seq[i] = x

IsPrefix(a, b) == Len(a) <= Len(b) /\ SubSeq(b, 1, Len(a)) = a

(* a step that is an iteration of a loop on a typed line *)
ReadsLine == nread' = nread + 1

Depth1File == TempDir \o "/history/s-root-foo-prompt)"

Depth3File == TempDir \o "/history/s-root-foo-prompt-karPROMPT-KarShell)"

(* C1: `end` dispatched in a Session makes `end` that Session's pending    *)
(* directive; a Session of depth >= 1 whose directive is `end` has left    *)
(* its loop, and when it terminates it is popped alone and hands `end` to  *)
(* its parent, so the Sessions end innermost first; the root with a        *)
(* pending `end` has neither left its loop nor returned.                   *)
C1_EndUnwindsToRoot ==
    /\ [](\A k \in 1..Len(stack) :
            stack[k].exit_directive = "end" =>
                IF IsRoot(stack[k]) THEN stack[k].pc \notin {"break", "done"}
                ELSE stack[k].pc = "break")
    /\ [][(ReadsLine /\ typed' = "end") =>
            /\ Len(stack') = Len(stack)
            /\ Top'.exit_directive = "end"
            /\ IsRoot(Top) => Top'.pc = "read"]_vars
    /\ [][(Top.pc = "break" /\ Top.exit_directive = "end") =>
            /\ Len(stack') = Len(stack) - 1
            /\ SubSeq(stack', 1, Len(stack) - 2) = Below(Len(stack) - 2)
            /\ Top'.self = stack[Len(stack) - 1].self
            /\ Top'.exit_directive = "end"]_vars

(* `end` typed three levels deep has unwound all three levels and the root *)
(* is at its next input() *)
C1_Witness ==
    /\ Len(stack) = 1
    /\ stack[1].pc = "read"
    /\ stack[1].exit_directive = "end"
    /\ typed = "end"
    /\ Depth3File \in DOMAIN files
    /\ files[Depth3File] = <<"end">>

(* C2: when a child Session terminates, exactly its frame is popped and    *)
(* the parent's directive is `end` if and only if the child's was `end`;   *)
(* after `exit` in the child (directive True) the parent's directive is    *)
(* False and the parent is at its next input().                            *)
C2_ExitUnwindsOneLevel ==
    [][(Len(stack) >= 2 /\ Top.pc = "break") =>
        /\ Len(stack') = Len(stack) - 1
        /\ SubSeq(stack', 1, Len(stack) - 2) = Below(Len(stack) - 2)
        /\ Top'.self = stack[Len(stack) - 1].self
        /\ (Top'.exit_directive = "end") <=> (Top.exit_directive = "end")
        /\ Top.exit_directive = "True" =>
              (Top'.exit_directive = "False" /\ Top'.pc = "read")]_vars

(* a parent of depth 1 is back at input() after `exit` in its child *)
C2_Witness ==
    /\ Len(stack) = 2
    /\ Top.pc = "read"
    /\ Top.exit_directive = "False"
    /\ typed = "exit"

(* C3: the history file of a nesting identity accumulates across visits:   *)
(* when a Session of depth >= 1 terminates, the lines its history file     *)
(* held before (those of the earlier visits) are still there, followed by  *)
(* the lines of this visit.                                                *)
C3_HistoryAccumulates ==
    [][(/\ Len(stack) >= 2
        /\ Top.pc = "break"
        /\ HistoryFname(Top.self) \in DOMAIN files
        /\ \A k \in 1..(Len(stack) - 1) :
              HistoryFname(stack[k].self) # HistoryFname(Top.self)) =>
        IsPrefix(files[HistoryFname(Top.self)], files'[HistoryFname(Top.self)])]_vars

(* C4: a line with an unterminated quote is reported on the error stream   *)
(* and is a no-op: the Session that read it is at its next input() with    *)
(* directive Continue and no Session is unwinding.                         *)
C4_MalformedQuotingIsNoOp ==
    [][(ReadsLine /\ ~ShlexSplit(typed').ok) =>
        /\ Len(stack') = Len(stack)
        /\ Top'.pc = "read"
        /\ Top'.exit_directive \in {"False", "None"}
        /\ err' # <<>>
        /\ \A k \in 1..Len(stack') : stack'[k].pc \notin {"raise", "failed"}]_vars

(* C5: when a parent is back at input() after `exit` was typed in its      *)
(* child, the parent's history file does not hold the child's `exit`; for  *)
(* the root and the child launched by its first line, the child's file     *)
(* holds exactly `exit`.                                                   *)
C5_ParentFileUntouched ==
    (Top.pc = "read" /\ typed = "exit") =>
        /\ HistoryFname(Top.self) \in DOMAIN files
        /\ ~InSet("exit", files[HistoryFname(Top.self)])
        /\ (Len(stack) = 1 /\ nread = 2) =>
              (Depth1File \in DOMAIN files /\ files[Depth1File] = <<"exit">>)

(* C6: the history file of a Session differs from the history file of      *)
(* every Session it is nested in.                                          *)
C6_ChildFileDiffersFromAncestors ==
    \A j, k \in 1..Len(stack) :
        j < k => HistoryFname(stack[j].self) # HistoryFname(stack[k].self)

(* C7: when a Session leaves its loop, by break or by an exception, the    *)
(* completer and the delimiters are again those its cmdloop found; at      *)
(* every input() the completer is that of the Session reading; after the   *)
(* root has terminated both have their values from before the root ran.    *)
C7_CompleterAndDelimsRestored ==
    /\ [][(Top.pc \in {"break", "raise"} /\ stack' # stack) =>
            (completer' = Top.old_completer /\ delims' = Top.old_delims)]_vars
    /\ [](Top.pc = "read" => completer = Top.self)
    /\ [](stack[1].pc \in {"done", "failed"} =>
            (completer = NoCompleter /\ delims = DefaultDelims))

(* C8 as claimed: after `foo` (which launches FooShell from the root) and  *)
(* `exit`, help on the buffer `?` writes FooShell's documentation string.  *)
C8_HelpPrintsSubshellDoc ==
    (/\ Len(stack) = 1
     /\ nread = 2
     /\ typed = "exit"
     /\ Depth1File \in DOMAIN files
     /\ Len(out) = 5
     /\ DocString("FooShell") # DocString(RootType)) =>
        out[2] = DocString("FooShell")

(* C8: help on the buffer `?` writes the documentation string of the type  *)
(* of the Session that is reading the line, its own docstring or else      *)
(* Shell's; after `foo` and `exit` that is the root's.                     *)
C8_HelpPrintsReaderDoc ==
    Len(out) = 5 =>
        out[2] = IF Top.self.cls \in hasDoc THEN Top.self.cls \o " doc" ELSE ShellDoc

(* help was triggered at the root after `foo` and `exit` *)
C8_Witness ==
    /\ Len(stack) = 1
    /\ nread = 2
    /\ typed = "exit"
    /\ Depth1File \in DOMAIN files
    /\ Len(out) = 5
    /\ "FooShell" \in hasDoc
    /\ out[2] = "MyShell doc"

(* C9: the unknown command `zz` writes exactly "zz: command not found\n"   *)
(* to the error stream and nothing to the output stream; no frame is       *)
(* pushed or popped, the Session that read it is at its next input() with  *)
(* the same Shell object, and the completer, the delimiters and the        *)
(* history files are unchanged.                                            *)
C9_UnknownCommand ==
    [][(ReadsLine /\ typed' = "zz") =>
        /\ err' = <<"zz: command not found\n">>
        /\ out' = <<>>
        /\ stack' = [stack EXCEPT ![Len(stack)].exit_directive = "None"]
        /\ Top'.pc = "read"
        /\ completer' = completer
        /\ delims' = delims
        /\ files' = files]_vars

(* `zz` was typed three levels deep *)
C9_Witness ==
    /\ Len(stack) = 4
    /\ Top.pc = "read"
    /\ typed = "zz"
    /\ err = <<"zz: command not found\n">>

(* some Session is unwinding with an exception *)
Failing == \E k \in 1..Len(stack) : stack[k].pc \in {"raise", "failed"}

(* C10: no failure arises from history I/O: a Session starts to unwind     *)
(* with an exception only on a line that does not parse.                   *)
C10_HistoryIoNeverFatal ==
    [][(~Failing /\ Failing') => (ReadsLine /\ ~ShlexSplit(typed').ok)]_vars

(***************************************************************************)
(* C11..C20.                                                               *)
(***************************************************************************)
Declares(h, n) == InSet(n, h.commands)

(* the handler of the shell type cls that claims the command name n, the   *)
(* last one in the order of dir() if several do                            *)
HandlerOf(cls, n) ==
    LET hs == Handlers(cls)
        i == CHOOSE i \in 1..Len(hs) :
                /\ Declares(hs[i], n)
                /\ \A j \in (i + 1)..Len(hs) : ~Declares(hs[j], n)
    IN  hs[i]

(* C11: a line whose first token is a name n of the registry of the        *)
(* Session that reads it invokes the handler that claims n, once, with the *)
(* remaining tokens as its argument list, and no other handler.            *)
C11_DispatchInvokesMappedHandler ==
    [][ReadsLine =>
         LET r == ShlexSplit(typed')
             self == Top.self
         IN  (r.ok /\ Len(r.toks) > 0 /\ HasKey(self.cmd_map, r.toks[1])) =>
                 called' = [attr |-> HandlerOf(self.cls, r.toks[1]).attr,
                            args |-> Tail(r.toks)]]_vars

C11_Witness ==
    /\ typed = "hi there 'a b'"
    /\ called = [attr |-> "do_hello", args |-> <<"there", "a b">>]
    /\ Top.self.cls = "MyShell"

(* the part of a prompt between "(" and ")$ " *)
Identity(prompt) == SubSeq(prompt, 2, Len(prompt) - 3)

(* C12: the history file of a Session is named "s-" followed by its prompt *)
(* without the leading "(" and the trailing ")$ ".                         *)
C12_HistoryFileName ==
    \A k \in 1..Len(stack) :
        stack[k].pc # "idle" =>
            HistoryFname(stack[k].self) =
                TempDir \o "/history/s-" \o Identity(stack[k].self.prompt)

BuiltinNames == {"exit", "end", "exec", "history", "help"}

(* C13: the registry of every Session, whatever its shell type, contains   *)
(* exit, end, exec, history and help.                                      *)
C13_BuiltinsRegistered ==
    \A k \in 1..Len(stack) : \A n \in BuiltinNames : HasKey(stack[k].self.cmd_map, n)

C13_Witness ==
    /\ Len(stack) = 3
    /\ stack[3].self.cls = "KarShell"
    /\ stack[3].pc = "read"
    /\ called.attr = "do_kar"

(* a step on which the child of the Session at depth Len(stack) - 1 has    *)
(* left its loop by break and launch_subshell returns in that Session      *)
LaunchReturns ==
    /\ Len(stack) >= 2
    /\ Top.pc = "break"
    /\ Len(stack') = Len(stack) - 1
    /\ stack'[Len(stack')].pc \in {"read", "break"}

(* C14: when launch_subshell returns normally in a Session, the history    *)
(* buffer is the buffer that Session had at the moment of the launch.      *)
C14_ParentBufferRestored ==
    [][LaunchReturns => history' = visit[Len(stack) - 1].at_launch]_vars

(* a step on which a cmdloop starts: the root's, or a launched child's *)
CmdloopStarts ==
    \/ Top.pc = "idle" /\ Top'.pc = "read"
    \/ Len(stack') = Len(stack) + 1

(* C15: when a cmdloop starts and the history file of its Session exists   *)
(* (and is not the file of an ancestor), the history buffer at the first   *)
(* input() contains the entries of the file.                               *)
C15_FileLoadedAtStart ==
    [][LET f == HistoryFname(stack'[Len(stack')].self)
       IN  (/\ CmdloopStarts
            /\ f \in DOMAIN files
            /\ \A k \in 1..Len(stack) :
                  stack[k].pc # "idle" => HistoryFname(stack[k].self) # f)
           => \A i \in 1..Len(files[f]) : InSet(files[f][i], history')]_vars

ModeStackOf(k) == stack[k].self.mode_stack

(* C16: the Session at depth k holds a mode stack of k Modes, its parent's *)
(* stack plus one Mode; the root's is empty; no step changes the mode      *)
(* stack of a Session that stays on the call stack, and a launch gives the *)
(* child the launching Session's stack plus the Mode of the launch.        *)
C16_ModeStacks ==
    /\ [](\A k \in 1..Len(stack) :
            /\ Len(ModeStackOf(k)) = k - 1
            /\ k > 1 => SubSeq(ModeStackOf(k), 1, k - 2) = ModeStackOf(k - 1))
    /\ [][/\ \A k \in 1..Len(stack) :
               k <= Len(stack') => stack'[k].self.mode_stack = ModeStackOf(k)
          /\ Len(stack') = Len(stack) + 1 =>
               LET ms == stack'[Len(stack')].self.mode_stack
               IN  /\ Len(ms) = Len(Top.self.mode_stack) + 1
                   /\ SubSeq(ms, 1, Len(ms) - 1) = Top.self.mode_stack
                   /\ ms[Len(ms)].args = called'.args]_vars

C16_Witness ==
    /\ Len(stack) = 4
    /\ [k \in 1..3 |-> ModeStackOf(4)[k].prompt_display] =
           <<"foo-prompt", "karPROMPT", "KarShell">>
    /\ ModeStackOf(2) = <<Mode(<<>>, "foo-prompt")>>
    /\ Depth3File \in DOMAIN files

(* C17: the prompt of every Session is "(" followed by the label the root  *)
(* was constructed with and the prompt_display of each Mode of its mode    *)
(* stack, joined by "-", followed by ")$ ".                                *)
C17_PromptFromRootLabel ==
    \A k \in 1..Len(stack) :
        stack[k].self.prompt =
            Prompt(Identity(stack[1].self.prompt), ModeStackOf(k))

(* C18: a read at end-of-stream acts like exit: the Session that reads     *)
(* leaves its loop with directive True and nothing else changes; and once  *)
(* the stream has ended every Session terminates, the root last, and the   *)
(* root's cmdloop returns.                                                 *)
C18_EofUnwindsAll ==
    /\ [][ReadEOF =>
            /\ stack' = [stack EXCEPT ![Len(stack)].exit_directive = "True",
                                      ![Len(stack)].pc = "break"]
            /\ called' = [attr |-> "_do_exit", args |-> <<>>]
            /\ history' = history
            /\ files' = files]_vars
    /\ (typed = EOF) ~> (Len(stack) = 1 /\ stack[1].pc = "done")

C18_Witness ==
    /\ Len(stack) = 1
    /\ stack[1].pc = "done"
    /\ typed = EOF
    /\ nread = 3
    /\ Depth3File \in DOMAIN files

(* the buffer is one command word: it has no delimiter and no "?" at its   *)
(* end, so the word under completion starts at offset 0                    *)
IsCommandWord(text) ==
    /\ Begidx(text, delims) = 0
    /\ ~(text # "" /\ CharAt(text, Len(text)) = "?")

(* C19: attempt i of the completion of a command word returns the i-th     *)
(* name of the registry that starts with the word, and None, without an    *)
(* error, for every i from the number of such names on.                    *)
C19_CommandWordCompletion ==
    [][\A text \in CompleteWords, state \in 0..MaxState :
         (Complete(text, state) /\ IsCommandWord(text)) =>
            LET names == [i \in 1..Len(Top.self.cmd_map) |-> Top.self.cmd_map[i][1]]
                m == SelectSeq(names, LAMBDA n : StartsWith(n, text))
            IN  comp' = IF state < Len(m)
                        THEN [kind |-> "str", val |-> m[state + 1]]
                        ELSE [kind |-> "None", val |-> ""]]_vars

Range(seq) == {seq[i] : i \in 1..Len(seq)}

(* C20: a step writes no history file but the one of the Session that      *)
(* takes the step, and every line it writes was typed at that Session or   *)
(* was in that file before.                                                *)
C20_FileHoldsOwnLines ==
    [][\A p \in DOMAIN files' :
         (p \notin DOMAIN files \/ files'[p] # files[p]) =>
            LET n == Len(stack)
                own == IF ReadsLine THEN visit'[n].entered ELSE visit[n].entered
                old == IF p \in DOMAIN files THEN Range(files[p]) ELSE {}
            IN  /\ p = HistoryFname(Top.self)
                /\ Range(files'[p]) \subseteq own \cup old]_vars

(* C21: two Sessions of the tree, running now or earlier, that use the     *)
(* same history file have mode stacks with the same sequence of            *)
(* prompt_display labels.                                                  *)
C21_FileKeyedByPosition ==
    \A a, b \in sessions : a[1] = b[1] => a[2] = b[2]

====
